---- MODULE Spec2Model ----
(***************************************************************************)
(* Multi-core CPU scheduling simulator (libscheduler.c) built on the       *)
(* comparator-ordered linked queue (libpriqueue.c).                        *)
(*                                                                         *)
(* Jobs are heap records addressed by their job number; the queue `jobs`   *)
(* and the core array `c_job` hold references (job numbers) to them.       *)
(***************************************************************************)
EXTENDS Integers, Sequences, FiniteSets, TLC

\* ---------------------------------------------------------------- bounds
MaxCores == 2      \* scheduler_start_up is called with 1..MaxCores cores
MaxJobs  == 3      \* number of arrivals the harness delivers
MaxTime  == 2      \* latest arrival time
MaxRun   == 4      \* running_time of an arrival is 1..MaxRun (FCFS, SJF, PSJF)
MaxShortRun == 3   \* running_time of an arrival is 1..MaxShortRun (PRI, PPRI, RR)
MaxPri   == 1      \* priority of an arrival is 0..MaxPri
MaxQuantum == 2    \* the harness's RR time slice is 1..MaxQuantum
\* the queue on its own (QueueSpec)
QItems == 3        \* distinct items (pointers) offered to the queue
QLen   == 3        \* the harness offers while the queue is shorter than this
\* the longer PSJF traces of PSJFSpec
DeepJobs == 4      \* number of arrivals
DeepTime == 3      \* latest arrival time
DeepRun  == 6      \* running_time of an arrival is 1..DeepRun
\* the traces of LiveSpec and RRSpec, checked for what eventually happens
FairJobs == 2      \* number of arrivals
FairTime == 1      \* latest arrival time
FairRun  == 2      \* running_time of an arrival is 1..FairRun

\* ------------------------------------------------------------- constants
NULL   == 0        \* empty core slot / null pointer
Unset  == -1       \* the -1 sentinel of t_started, t_updated, j_core
Uninit == -99      \* a field malloc left uninitialised (not read on a
                   \* well-formed trace)
Fault  == -2       \* the call did not return: a wild, freed or null pointer
                   \* was dereferenced

Schemes == {"FCFS", "SJF", "PSJF", "PRI", "PPRI", "RR"}

VARIABLES
  t_scheme,      \* active discipline
  n_cores,       \* c_cores->n_cores
  c_job,         \* c_cores->c_job : core index -> job number or NULL
  jobs,          \* the priority queue, front first, as job numbers
  size,          \* jobs->size, the queue's own count of its nodes
  job,           \* heap: live job number -> job_t record
  c_time,        \* current time
  n_jobs,        \* jobs ever submitted
  t_response, t_wait, t_turnaround,   \* running sums
  ret,           \* return value of the last newJob/jobFinished/quantumExpired
  avg,           \* return value of the last scheduler_average_* call
  ev,            \* the last call: [op, core, job]
  fin,           \* freed jobs: job number -> job_t record at free()
  quantum,       \* harness: length of the RR time slice (0 outside RR)
  c_since,       \* harness: time the job on each core was put there
  g_first        \* harness: time each job first actually ran (or Unset)

vars == <<t_scheme, n_cores, c_job, jobs, size, job, c_time, n_jobs,
          t_response, t_wait, t_turnaround, ret, avg, ev, fin, quantum,
          c_since, g_first>>

Cores == 0 .. (n_cores - 1)

\* ------------------------------------------------------------ comparer
\* comparer whose FCFS case orders the inserted job before every queued one
comparer_fcfs_front(p1, p2) ==
  CASE t_scheme = "FCFS" -> -1
    [] t_scheme = "SJF"  ->
         IF p1.t_total < p2.t_remaining /\ p2.t_started = Unset THEN -1 ELSE 1
    [] t_scheme = "PSJF" ->
         IF p1.t_remaining < p2.t_remaining THEN -1 ELSE 1
    [] t_scheme = "PRI"  ->
         IF p1.priority < p2.priority /\ p2.t_started = Unset THEN -1 ELSE 1
    [] t_scheme = "PPRI" ->
         IF p1.priority < p2.priority THEN -1 ELSE 1
    [] t_scheme = "RR"   -> 1
    [] OTHER -> 1

\* comparer whose SJF case lets the inserted job pass a job of equal length
comparer_sjf_tie(p1, p2) ==
  CASE t_scheme = "FCFS" -> 1
    [] t_scheme = "SJF"  ->
         IF p1.t_total <= p2.t_remaining /\ p2.t_started = Unset THEN -1 ELSE 1
    [] t_scheme = "PSJF" ->
         IF p1.t_remaining < p2.t_remaining THEN -1 ELSE 1
    [] t_scheme = "PRI"  ->
         IF p1.priority < p2.priority /\ p2.t_started = Unset THEN -1 ELSE 1
    [] t_scheme = "PPRI" ->
         IF p1.priority < p2.priority THEN -1 ELSE 1
    [] t_scheme = "RR"   -> 1
    [] OTHER -> 1

\* comparer whose PPRI case never passes a started job, as the PRI case does
comparer_ppri_started(p1, p2) ==
  CASE t_scheme = "FCFS" -> 1
    [] t_scheme = "SJF"  ->
         IF p1.t_total < p2.t_remaining /\ p2.t_started = Unset THEN -1 ELSE 1
    [] t_scheme = "PSJF" ->
         IF p1.t_remaining < p2.t_remaining THEN -1 ELSE 1
    [] t_scheme = "PRI"  ->
         IF p1.priority < p2.priority /\ p2.t_started = Unset THEN -1 ELSE 1
    [] t_scheme = "PPRI" ->
         IF p1.priority < p2.priority /\ p2.t_started = Unset THEN -1 ELSE 1
    [] t_scheme = "RR"   -> 1
    [] OTHER -> 1

\* comparer whose RR case orders the inserted job before every queued one
comparer_rr_front(p1, p2) ==
  CASE t_scheme = "SJF"  ->
         IF p1.t_total < p2.t_remaining /\ p2.t_started = Unset THEN -1 ELSE 1
    [] t_scheme = "PSJF" ->
         IF p1.t_remaining < p2.t_remaining THEN -1 ELSE 1
    [] t_scheme = "PRI"  ->
         IF p1.priority < p2.priority /\ p2.t_started = Unset THEN -1 ELSE 1
    [] t_scheme = "PPRI" ->
         IF p1.priority < p2.priority THEN -1 ELSE 1
    [] t_scheme = "RR"   -> -1
    [] OTHER -> 1

\* p1 = job being inserted, p2 = job already in the queue
comparer(p1, p2) ==
  CASE t_scheme = "FCFS" -> 1
    [] t_scheme = "SJF"  ->
         IF p1.t_total < p2.t_remaining /\ p2.t_started = Unset THEN -1 ELSE 1
    [] t_scheme = "PSJF" ->
         IF p1.t_remaining < p2.t_remaining THEN -1 ELSE 1
    [] t_scheme = "PRI"  ->
         IF p1.priority < p2.priority /\ p2.t_started = Unset THEN -1 ELSE 1
    [] t_scheme = "PPRI" ->
         IF p1.priority < p2.priority THEN -1 ELSE 1
    [] t_scheme = "RR"   -> 1
    [] OTHER -> 1

\* ------------------------------------------------------------ priqueue
\* The list is the sequence q.  The loops of the queue run up to q->size,
\* which is the length of the list as long as every size++ / size-- goes
\* with a node linked or unlinked; each operation below reports, as n, by
\* how much it changes q->size, and the variable `size` adds these up.
priqueue_size(q) == Len(q)

\* loop of priqueue_offer: cNode is the node at zero-based index i
RECURSIVE offer_scan(_, _, _, _)
offer_scan(q, x, J, i) ==
  IF i + 1 = Len(q) \/ comparer(J[x], J[q[i + 2]]) < 0
  THEN i
  ELSE offer_scan(q, x, J, i + 1)

\* insert that links newNode in front of cNode instead of behind it
insert_before(q, i, x) == SubSeq(q, 1, i) \o <<x>> \o SubSeq(q, i + 1, Len(q))

\* insert(cNode, newNode): newNode goes right after zero-based index i
insert(q, i, x) == SubSeq(q, 1, i + 1) \o <<x>> \o SubSeq(q, i + 2, Len(q))

\* priqueue_offer whose head insertion forgets to link the old list
priqueue_offer_latecheck(q, x, J) ==
  IF Len(q) = 0 THEN [q |-> <<x>>, r |-> 0, n |-> 1]
  ELSE IF x = NULL THEN [q |-> q, r |-> -1, n |-> 0]
  ELSE IF comparer(J[x], J[q[1]]) < 0 THEN [q |-> <<x>> \o q, r |-> 0, n |-> 1]
  ELSE LET i == offer_scan(q, x, J, 0)
       IN  [q |-> insert(q, i, x), r |-> i, n |-> 1]

priqueue_offer_losetail(q, x, J) ==
  IF x = NULL THEN [q |-> q, r |-> -1, n |-> 0]
  ELSE IF Len(q) = 0 THEN [q |-> <<x>>, r |-> 0, n |-> 1]
  ELSE IF comparer(J[x], J[q[1]]) < 0 THEN [q |-> <<x>>, r |-> 0, n |-> 1]
  ELSE LET i == offer_scan(q, x, J, 0)
       IN  [q |-> insert(q, i, x), r |-> i, n |-> 1]

\* priqueue_offer: the queue after the call and the value returned
priqueue_offer(q, x, J) ==
  IF x = NULL THEN [q |-> q, r |-> -1, n |-> 0]
  ELSE IF Len(q) = 0 THEN [q |-> <<x>>, r |-> 0, n |-> 1]
  ELSE IF comparer(J[x], J[q[1]]) < 0 THEN [q |-> <<x>> \o q, r |-> 0, n |-> 1]
  ELSE LET i == offer_scan(q, x, J, 0)
       IN  [q |-> insert(q, i, x), r |-> i, n |-> 1]

\* priqueue_at: the values the call can return.  For index == size the
\* range test lets the index through and cNode is NULL when its data is
\* read: the call faults, or returns whatever that read yields.
priqueue_at(q, index) ==
  IF index > priqueue_size(q) \/ index < 0 THEN {NULL}
  ELSE IF index = priqueue_size(q)
       THEN {Fault, NULL} \cup {q[i] : i \in 1 .. Len(q)}
       ELSE {q[index + 1]}

\* priqueue_remove_at for an index inside the queue
priqueue_remove_at(q, index) ==
  SubSeq(q, 1, index) \o SubSeq(q, index + 2, Len(q))

\* priqueue_peek and priqueue_poll: the head's element, NULL on an empty queue.
priqueue_peek(q) == IF priqueue_size(q) = 0 THEN NULL ELSE q[1]

priqueue_poll_last(q) ==
  IF priqueue_size(q) = 0 THEN [q |-> q, r |-> NULL, n |-> 0]
  ELSE [q |-> SubSeq(q, 1, Len(q) - 1), r |-> q[Len(q)], n |-> -1]

priqueue_poll_nosize(q) ==
  IF priqueue_size(q) = 0 THEN [q |-> q, r |-> NULL, n |-> 0]
  ELSE [q |-> Tail(q), r |-> q[1], n |-> 0]

priqueue_poll(q) ==
  IF priqueue_size(q) = 0 THEN [q |-> q, r |-> NULL, n |-> 0]
  ELSE [q |-> Tail(q), r |-> q[1], n |-> -1]

\* priqueue_remove, first loop: poll while the head holds ptr.
RECURSIVE remove_head(_, _, _)
remove_head(q, ptr, removed) ==
  IF priqueue_size(q) > 0 /\ q[1] = ptr
  THEN remove_head(priqueue_poll(q).q, ptr, removed + 1)
  ELSE [q |-> q, r |-> removed]

\* priqueue_remove, second loop: cNode is the node at zero-based position i;
\* a match unlinks cNode->next and stays on cNode, otherwise cNode advances.
RECURSIVE remove_walk(_, _, _, _)
remove_walk(q, i, ptr, removed) ==
  IF i + 1 >= Len(q) THEN [q |-> q, r |-> removed]
  ELSE IF q[i + 2] = ptr
       THEN remove_walk(priqueue_remove_at(q, i + 1), i, ptr, removed + 1)
       ELSE remove_walk(q, i + 1, ptr, removed)

RECURSIVE remove_walk_skip(_, _, _, _)
remove_walk_skip(q, i, ptr, removed) ==
  IF i + 1 >= Len(q) THEN [q |-> q, r |-> removed]
  ELSE IF q[i + 2] = ptr
       THEN remove_walk_skip(priqueue_remove_at(q, i + 1), i + 1, ptr, removed + 1)
       ELSE remove_walk_skip(q, i + 1, ptr, removed)

priqueue_remove_skip(q, ptr) ==
  LET h == remove_head(q, ptr, 0)
  IN  IF priqueue_size(h.q) > 0
      THEN LET w == remove_walk_skip(h.q, 0, ptr, h.r)
           IN  [q |-> w.q, r |-> w.r, n |-> 0 - w.r]
      ELSE [q |-> h.q, r |-> h.r, n |-> 0 - h.r]

priqueue_remove(q, ptr) ==
  LET h == remove_head(q, ptr, 0)
  IN  IF priqueue_size(h.q) > 0
      THEN LET w == remove_walk(h.q, 0, ptr, h.r)
           IN  [q |-> w.q, r |-> w.r, n |-> 0 - w.r]
      ELSE [q |-> h.q, r |-> h.r, n |-> 0 - h.r]

\* A call of priqueue_remove_at with any index: its possible outcomes.  The
\* range test is `index > size`, so index = size goes on to the list: on an
\* empty queue it reads head->next of a NULL head, otherwise it walks to the
\* last node and reads ->data of its NULL successor.  Reading through NULL
\* is undefined: the call may not return, or it goes on to its writes and
\* its size-- with whatever it read.
priqueue_remove_at_call(q, index) ==
  IF index > priqueue_size(q) \/ index < 0 THEN {[q |-> q, r |-> NULL, n |-> 0]}
  ELSE IF index = priqueue_size(q)
       THEN {[q |-> q, r |-> Fault, n |-> 0]}
              \cup {[q |-> q, r |-> g, n |-> -1] :
                      g \in {NULL} \cup {q[i] : i \in 1 .. Len(q)}}
       ELSE {[q |-> priqueue_remove_at(q, index), r |-> q[index + 1], n |-> -1]}

\* priqueue_destroy: poll until the size is zero.
RECURSIVE destroy_loop(_, _)
destroy_loop(q, n) ==
  IF priqueue_size(q) > 0
  THEN destroy_loop(priqueue_poll(q).q, n + priqueue_poll(q).n)
  ELSE [q |-> q, n |-> n]

priqueue_destroy(q) == destroy_loop(q, 0)

\* ---------------------------------------------------- increment_timestep
RECURSIVE inc_loop(_, _, _)
inc_loop(J, T, i) ==
  IF i >= n_cores THEN J
  ELSE IF c_job[i] = NULL THEN inc_loop(J, T, i + 1)
  ELSE LET r  == c_job[i]
           rj == J[r]
           nj == IF rj.t_started = Unset /\ rj.t_updated # T
                 THEN [rj EXCEPT !.t_started = rj.t_updated]
                 ELSE [rj EXCEPT !.t_remaining = @ - (T - rj.t_updated),
                                 !.t_updated = T]
       IN  inc_loop([J EXCEPT ![r] = nj], T, i + 1)

\* increment_timestep that advances every stamped job, on a core or not
increment_timestep_all(J, T) ==
  [k \in DOMAIN J |->
     IF J[k].t_updated # Unset
     THEN [J[k] EXCEPT !.t_remaining = @ - (T - J[k].t_updated), !.t_updated = T]
     ELSE J[k]]

increment_timestep(J, T) == inc_loop(J, T, 0)

\* ------------------------------------------------------ scheduler_new_job
\* the while loop that looks for a free core: first index with a NULL slot
RECURSIVE free_core(_)
free_core(i) ==
  IF i < n_cores /\ c_job[i] # NULL THEN free_core(i + 1) ELSE i

\* variant: the highest-numbered free core, n_cores when every core is busy
first_free_highest ==
  IF \E c \in Cores : c_job[c] = NULL
  THEN CHOOSE c \in Cores : c_job[c] = NULL /\ \A d \in Cores : c_job[d] = NULL => d <= c
  ELSE n_cores

\* the lowest-numbered free core, n_cores when every core is busy
first_free == free_core(0)

RECURSIVE psjf_scan(_, _, _, _, _)
psjf_scan(J, nj, i, coretochange, corejoblength) ==
  IF i >= n_cores THEN coretochange
  ELSE LET r == J[c_job[i]].t_remaining
       IN  IF r > nj.t_remaining /\ r > corejoblength
           THEN psjf_scan(J, nj, i + 1, i, r)
           ELSE psjf_scan(J, nj, i + 1, coretochange, corejoblength)

RECURSIVE ppri_scan(_, _, _, _, _)
ppri_scan(J, nj, i, coretochange, corepriority) ==
  IF i >= n_cores THEN coretochange
  ELSE LET p == J[c_job[i]].priority
       IN  IF p > nj.priority
           THEN IF p > corepriority
                THEN ppri_scan(J, nj, i + 1, i, p)
                ELSE IF p = corepriority
                        /\ J[c_job[i]].t_arrival > J[c_job[coretochange]].t_arrival
                     THEN ppri_scan(J, nj, i + 1, i, corepriority)
                     ELSE ppri_scan(J, nj, i + 1, coretochange, corepriority)
           ELSE ppri_scan(J, nj, i + 1, coretochange, corepriority)

\* psjf_scan that also takes a running job with equal remaining time
RECURSIVE psjf_scan_eq(_, _, _, _, _)
psjf_scan_eq(J, nj, i, ctc, corejoblength) ==
  IF i >= n_cores THEN ctc
  ELSE LET r == J[c_job[i]].t_remaining
       IN  IF r >= nj.t_remaining /\ r > corejoblength
           THEN psjf_scan_eq(J, nj, i + 1, i, r)
           ELSE psjf_scan_eq(J, nj, i + 1, ctc, corejoblength)

\* ppri_scan without the arrival-time tie-break
RECURSIVE ppri_scan_notie(_, _, _, _, _)
ppri_scan_notie(J, nj, i, ctc, corepriority) ==
  IF i >= n_cores THEN ctc
  ELSE LET p == J[c_job[i]].priority
       IN  IF p > nj.priority /\ p > corepriority
           THEN ppri_scan_notie(J, nj, i + 1, i, p)
           ELSE ppri_scan_notie(J, nj, i + 1, ctc, corepriority)

\* ppri_scan that also takes a running job of equal priority
RECURSIVE ppri_scan_eq(_, _, _, _, _)
ppri_scan_eq(J, nj, i, ctc, corepriority) ==
  IF i >= n_cores THEN ctc
  ELSE LET p == J[c_job[i]].priority
       IN  IF p >= nj.priority /\ p > corepriority
           THEN ppri_scan_eq(J, nj, i + 1, i, p)
           ELSE ppri_scan_eq(J, nj, i + 1, ctc, corepriority)

\* coretochange that never picks a victim under PPRI
coretochange_ppri_never(J, nj) ==
  IF t_scheme = "PSJF" THEN psjf_scan(J, nj, 0, -1, -1)
  ELSE -1

coretochange_sjf_pri(J, nj) ==
  IF t_scheme \in {"PSJF", "SJF"} THEN psjf_scan(J, nj, 0, -1, -1)
  ELSE IF t_scheme \in {"PPRI", "PRI"} THEN ppri_scan(J, nj, 0, -1, -1)
  ELSE -1

coretochange_psjf_eq(J, nj) ==
  IF t_scheme = "PSJF" THEN psjf_scan_eq(J, nj, 0, -1, -1)
  ELSE IF t_scheme = "PPRI" THEN ppri_scan(J, nj, 0, -1, -1)
  ELSE -1

coretochange_ppri_notie(J, nj) ==
  IF t_scheme = "PSJF" THEN psjf_scan(J, nj, 0, -1, -1)
  ELSE IF t_scheme = "PPRI" THEN ppri_scan_notie(J, nj, 0, -1, -1)
  ELSE -1

coretochange_ppri_eq(J, nj) ==
  IF t_scheme = "PSJF" THEN psjf_scan(J, nj, 0, -1, -1)
  ELSE IF t_scheme = "PPRI" THEN ppri_scan_eq(J, nj, 0, -1, -1)
  ELSE -1

\* the core whose job the arrival replaces when all cores are busy, or -1
coretochange(J, nj) ==
  IF t_scheme = "PSJF" THEN psjf_scan(J, nj, 0, -1, -1)
  ELSE IF t_scheme = "PPRI" THEN ppri_scan(J, nj, 0, -1, -1)
  ELSE -1

\* the record malloc'ed and filled at the top of scheduler_new_job
new_job_rec(job_number, time, running_time, priority) ==
  [t_arrival |-> time, t_total |-> running_time, t_remaining |-> running_time,
   t_waiting |-> Uninit, t_updated |-> Unset, t_started |-> Unset,
   t_end |-> Uninit, job_id |-> job_number, priority |-> priority,
   j_core |-> Unset]

\* start_now that leaves t_waiting as malloc returned it
start_now_nowait(nj, time, core) ==
  [nj EXCEPT !.t_started = time, !.t_updated = time, !.j_core = core]

\* the job put on a core by scheduler_new_job (free core or preemption)
start_now(nj, time, core) ==
  [nj EXCEPT !.t_waiting = 0, !.t_started = time, !.t_updated = time,
             !.j_core = core]

\* evict that leaves the old core index in the evicted job
evict_keepcore(rj, time) ==
  IF rj.t_started = time
  THEN [rj EXCEPT !.t_started = Unset, !.t_updated = Unset]
  ELSE [rj EXCEPT !.t_updated = time]

\* evict without the same-timestep undo
evict_noundo(rj, time) == [rj EXCEPT !.j_core = Unset, !.t_updated = time]

\* the running job pushed off its core by an arrival
evict(rj, time) ==
  IF rj.t_started = time
  THEN [rj EXCEPT !.j_core = Unset, !.t_started = Unset, !.t_updated = Unset]
  ELSE [rj EXCEPT !.j_core = Unset, !.t_updated = time]

\* harness: jobs on a core since before `time` have now actually run
ran(time) ==
  [k \in DOMAIN g_first |->
     IF g_first[k] = Unset /\ time > c_time
        /\ \E c \in Cores : c_job[c] = k
     THEN c_time ELSE g_first[k]]

\* harness: the time at which the job on core c runs out of work
Due(c) == job[c_job[c]].t_updated + job[c_job[c]].t_remaining

\* harness: the time at which the time slice of the job on core c ends
SliceEnd(c) == c_since[c] + quantum

\* harness: no running job completes, and under RR no time slice ends,
\* before `time`
NothingBefore(time) ==
  \A c \in Cores :
    c_job[c] # NULL =>
      /\ Due(c) >= time
      /\ t_scheme = "RR" => SliceEnd(c) >= time

LastArrival ==
  IF n_jobs = 0 THEN -1
  ELSE IF n_jobs \in DOMAIN job THEN job[n_jobs].t_arrival
  ELSE fin[n_jobs].t_arrival

scheduler_new_job(job_number, time, running_time, priority) ==
  LET nj0 == new_job_rec(job_number, time, running_time, priority)
      J1  == increment_timestep(job, time)
      i   == first_free
  IN
  /\ c_time' = time
  /\ n_jobs' = n_jobs + 1
  /\ ev' = [op |-> "newJob", core |-> -1, job |-> job_number]
  /\ g_first' = ran(time) @@ (job_number :> Unset)
  /\ UNCHANGED <<t_scheme, n_cores, quantum, t_response, t_wait, t_turnaround,
                 fin, avg>>
  /\ IF i < n_cores
     THEN LET nj == start_now(nj0, time, i)
              J2 == J1 @@ (job_number :> nj)
          IN  /\ job' = J2
              /\ c_job' = [c_job EXCEPT ![i] = job_number]
              /\ jobs' = priqueue_offer(jobs, job_number, J2).q
              /\ size' = size + priqueue_offer(jobs, job_number, J2).n
              /\ c_since' = [c_since EXCEPT ![i] = time]
              /\ ret' = i
     ELSE LET ctc == coretochange(J1, nj0)
          IN  IF ctc # -1
              THEN LET nj == start_now(nj0, time, ctc)
                       old == c_job[ctc]
                       J2 == [J1 EXCEPT ![old] = evict(J1[old], time)]
                                @@ (job_number :> nj)
                   IN  /\ job' = J2
                       /\ c_job' = [c_job EXCEPT ![ctc] = job_number]
                       /\ jobs' = priqueue_offer(jobs, job_number, J2).q
                       /\ size' = size + priqueue_offer(jobs, job_number, J2).n
                       /\ c_since' = [c_since EXCEPT ![ctc] = time]
                       /\ ret' = ctc
              ELSE LET J2 == J1 @@ (job_number :> nj0)
                   IN  /\ job' = J2
                       /\ jobs' = priqueue_offer(jobs, job_number, J2).q
                       /\ size' = size + priqueue_offer(jobs, job_number, J2).n
                       /\ ret' = -1
                       /\ UNCHANGED <<c_job, c_since>>

\* ------------------------------------------------- scheduler_job_finished
\* zero-based index of the first queue element whose job_id is job_number,
\* priqueue_size(q) when the loop runs off the end
RECURSIVE find_job(_, _, _, _)
find_job(q, J, job_number, i) ==
  IF i < priqueue_size(q) /\ J[q[i + 1]].job_id # job_number
  THEN find_job(q, J, job_number, i + 1)
  ELSE i

\* zero-based index of the first queue element that is on no core,
\* priqueue_size(q) when every element has one
RECURSIVE next_job(_, _, _)
next_job(q, J, i) ==
  IF i < priqueue_size(q) /\ J[q[i + 1]].j_core # Unset
  THEN next_job(q, J, i + 1)
  ELSE i

\* dispatch that recomputes the waiting time of a resumed job from its arrival
dispatch_fromarrival(nj, time, core_id) ==
  IF nj.t_started = Unset
  THEN [nj EXCEPT !.t_started = time, !.t_updated = time,
                  !.t_waiting = time - nj.t_arrival, !.j_core = core_id]
  ELSE [nj EXCEPT !.t_waiting = time - nj.t_arrival,
                  !.t_updated = time, !.j_core = core_id]

\* the queued job handed the freed core
dispatch(nj, time, core_id) ==
  IF nj.t_started = Unset
  THEN [nj EXCEPT !.t_started = time, !.t_updated = time,
                  !.t_waiting = time - nj.t_arrival, !.j_core = core_id]
  ELSE [nj EXCEPT !.t_waiting = @ + (time - nj.t_updated),
                  !.t_updated = time, !.j_core = core_id]

\* a search that never finds a job without a core
next_unassigned_none(q, J) == priqueue_size(q)

\* a search that takes the last job without a core instead of the first
next_unassigned_last(q, J) ==
  LET W == {i \in 0 .. (priqueue_size(q) - 1) : J[q[i + 1]].j_core = Unset}
  IN  IF W = {} THEN priqueue_size(q)
      ELSE CHOOSE i \in W : \A k \in W : k <= i

\* the queue head, whether or not it already has a core
next_unassigned_head(q, J) == 0

\* the first queued job without a core (its zero-based index)
next_unassigned(q, J) == next_job(q, J, 0)

\* the heap without the freed job
free(J, x) == [k \in DOMAIN J \ {x} |-> J[k]]

\* a second half that leaves core_id idle whatever the queue holds
assign_next_idle(J, q, cj, core_id, time) ==
  /\ job' = J
  /\ c_job' = cj
  /\ ret' = -1
  /\ UNCHANGED c_since

\* the second half of job_finished / quantum_expired: hand core_id to the
\* first queued job without a core (J, q, cj are the state reached so far)
assign_next(J, q, cj, core_id, time) ==
  LET i == next_unassigned(q, J)
  IN  IF i >= priqueue_size(q)
      THEN /\ job' = J
           /\ c_job' = cj
           /\ ret' = -1
           /\ UNCHANGED c_since
      ELSE LET n == q[i + 1]
           IN  /\ job' = [J EXCEPT ![n] = dispatch(J[n], time, core_id)]
               /\ c_job' = [cj EXCEPT ![core_id] = n]
               /\ ret' = J[n].job_id
               /\ c_since' = [c_since EXCEPT ![core_id] = time]

\* job_number is in the queue
scheduler_job_finished(core_id, job_number, time) ==
  LET J1 == increment_timestep(job, time)
      i  == find_job(jobs, J1, job_number, 0)
      x  == jobs[i + 1]
      q1 == priqueue_remove_at(jobs, i)
      fj == [J1[x] EXCEPT !.t_end = time]
      J2 == free(J1, x)
      cj == [c_job EXCEPT ![core_id] = NULL]
  IN
  /\ c_time' = time
  /\ ev' = [op |-> "jobFinished", core |-> core_id, job |-> job_number]
  /\ g_first' = ran(time)
  /\ t_turnaround' = t_turnaround + (fj.t_end - fj.t_arrival)
  /\ t_wait' = t_wait + fj.t_waiting
  /\ t_response' = t_response + (fj.t_started - fj.t_arrival)
  /\ fin' = fin @@ (x :> fj)
  /\ jobs' = q1
  /\ size' = size - 1
  /\ assign_next(J2, q1, cj, core_id, time)
  /\ UNCHANGED <<t_scheme, n_cores, quantum, n_jobs, avg>>

\* what an indeterminate memory cell may hold (a small stand-in)
Garbage == 0 .. 1

\* job_number is NOT in the queue: the search loop (239-249) runs off the
\* end and leaves job_finished pointing at the last element scanned, or
\* uninitialised when the queue is empty; lines 252-262 then finalize and
\* free whatever it points at and clear the slot.  The freed job stays
\* linked in the queue, so the dispatch loop reads freed memory when it
\* gets that far.
scheduler_job_finished_miss(core_id, job_number, time) ==
  LET J1 == increment_timestep(job, time)
      cj == [c_job EXCEPT ![core_id] = NULL]
  IN
  /\ c_time' = time
  /\ ev' = [op |-> "jobFinished(absent)", core |-> core_id, job |-> job_number]
  /\ g_first' = ran(time)
  /\ jobs' = jobs
  /\ UNCHANGED <<t_scheme, n_cores, quantum, n_jobs, avg, c_since, size>>
  /\ IF priqueue_size(jobs) = 0
     THEN \* wild pointer: the write through it faults, or hits some memory
          \* and the sums pick up whatever is there
          \/ /\ ret' = Fault
             /\ UNCHANGED <<job, c_job, fin, t_turnaround, t_wait, t_response>>
          \/ /\ ret' = -1
             /\ job' = J1 /\ c_job' = cj /\ fin' = fin
             /\ t_turnaround' \in {t_turnaround + g : g \in Garbage}
             /\ t_wait' \in {t_wait + g : g \in Garbage}
             /\ t_response' \in {t_response + g : g \in Garbage}
     ELSE LET x  == jobs[priqueue_size(jobs)]
              fj == [J1[x] EXCEPT !.t_end = time]
              J2 == free(J1, x)
              before == SubSeq(jobs, 1, priqueue_size(jobs) - 1)
              i  == next_unassigned(before, J2)
          IN  /\ t_turnaround' = t_turnaround + (fj.t_end - fj.t_arrival)
              /\ t_wait' \in (IF fj.t_waiting = Uninit
                              THEN {t_wait + g : g \in Garbage}
                              ELSE {t_wait + fj.t_waiting})
              /\ t_response' = t_response + (fj.t_started - fj.t_arrival)
              /\ fin' = fin @@ (x :> fj)
              /\ IF i < priqueue_size(before)
                 THEN LET n == before[i + 1]
                      IN  /\ job' = [J2 EXCEPT ![n] = dispatch(J2[n], time, core_id)]
                          /\ c_job' = [cj EXCEPT ![core_id] = n]
                          /\ ret' = J2[n].job_id
                 ELSE \* the loop reaches the freed element and reads it
                      \/ ret' = Fault /\ job' = J2 /\ c_job' = cj
                      \/ ret' = -1 /\ job' = J2 /\ c_job' = cj
                      \/ ret' = fj.job_id /\ job' = J2
                         /\ c_job' = [cj EXCEPT ![core_id] = x]

\* ---------------------------------------------- scheduler_quantum_expired
\* job_ended that never sees a job as ended
job_ended_never(rj) == FALSE

\* the test "job ended this jump": no work left after the clock advance
job_ended(rj) == rj.t_remaining = 0

\* core_id holds a job
scheduler_quantum_expired(core_id, time) ==
  LET J1 == increment_timestep(job, time)
      i  == find_job(jobs, J1, J1[c_job[core_id]].job_id, 0)
      x  == jobs[i + 1]
      q1 == priqueue_remove_at(jobs, i)
  IN
  /\ c_time' = time
  /\ ev' = [op |-> "quantumExpired", core |-> core_id, job |-> x]
  /\ g_first' = ran(time)
  /\ UNCHANGED <<t_scheme, n_cores, quantum, n_jobs, avg>>
  /\ IF ~job_ended(J1[x])
     THEN LET J2 == [J1 EXCEPT ![x] = [@ EXCEPT !.j_core = Unset,
                                                 !.t_updated = time]]
              q2 == priqueue_offer(q1, x, J2).q
          IN  /\ jobs' = q2
              /\ size' = size - 1 + priqueue_offer(q1, x, J2).n
              /\ assign_next(J2, q2, c_job, core_id, time)
              /\ UNCHANGED <<t_turnaround, t_wait, t_response, fin>>
     ELSE LET fj == [J1[x] EXCEPT !.t_end = time]
              J2 == free(J1, x)
              cj == [c_job EXCEPT ![core_id] = NULL]
          IN  /\ t_turnaround' = t_turnaround + (fj.t_end - fj.t_arrival)
              /\ t_wait' = t_wait + fj.t_waiting
              /\ t_response' = t_response + (fj.t_started - fj.t_arrival)
              /\ fin' = fin @@ (x :> fj)
              /\ jobs' = q1
              /\ size' = size - 1
              /\ assign_next(J2, q1, cj, core_id, time)

\* ------------------------------------------------------------------ Init
\* the state scheduler_start_up leaves, for a discipline out of `schemes`
start_up(schemes) ==
  /\ t_scheme \in schemes
  /\ n_cores \in 1 .. MaxCores
  /\ c_job = [c \in 0 .. (n_cores - 1) |-> NULL]
  /\ jobs = << >> /\ size = 0
  /\ job = << >>
  /\ c_time = 0
  /\ n_jobs = 0
  /\ t_response = 0 /\ t_wait = 0 /\ t_turnaround = 0
  /\ ret = -1
  /\ avg = [num |-> 0, den |-> 1]
  /\ ev = [op |-> "startUp", core |-> -1, job |-> -1]
  /\ fin = << >>
  /\ quantum \in (IF t_scheme = "RR" THEN 1 .. MaxQuantum ELSE {0})
  /\ c_since = [c \in 0 .. (n_cores - 1) |-> 0]
  /\ g_first = << >>

Init == start_up(Schemes)

\* priorities the harness draws from; only PRI and PPRI ever read the field
Priorities == IF t_scheme \in {"PRI", "PPRI"} THEN 0 .. MaxPri ELSE {0}

\* run lengths the harness draws from; the disciplines that order jobs by
\* run length get the wider range
RunLengths ==
  IF t_scheme \in {"PRI", "PPRI", "RR"} THEN 1 .. MaxShortRun ELSE 1 .. MaxRun

\* an arrival, one of at most max_jobs, no later than max_time; completions
\* due at the same time have been delivered first
Arrival(max_jobs, max_time, runs) ==
  /\ n_jobs < max_jobs
  /\ \E time \in c_time .. max_time, running_time \in runs,
        priority \in Priorities :
       /\ time > LastArrival
       /\ NothingBefore(time)
       /\ \A c \in Cores : c_job[c] # NULL => Due(c) > time
       /\ scheduler_new_job(n_jobs + 1, time, running_time, priority)

NewJob == Arrival(MaxJobs, MaxTime, RunLengths)

\* the harness reports a completion when the job on core_id has no work left
JobFinished ==
  \E core_id \in Cores :
    /\ c_job[core_id] # NULL
    /\ NothingBefore(Due(core_id))
    /\ scheduler_job_finished(core_id, c_job[core_id], Due(core_id))

\* the harness reports the end of the time slice on core_id (RR only)
QuantumExpired ==
  /\ t_scheme = "RR"
  /\ \E core_id \in Cores :
       /\ c_job[core_id] # NULL
       /\ NothingBefore(SliceEnd(core_id))
       /\ scheduler_quantum_expired(core_id, SliceEnd(core_id))

Next == NewJob \/ JobFinished \/ QuantumExpired

Spec == Init /\ [][Next]_vars

\* Traces with a harness that keeps delivering: a completion that is due,
\* or the end of a time slice under RR, is not withheld for ever.  Arrivals
\* may stop at any point.
LiveNewJob == Arrival(FairJobs, FairTime, 1 .. FairRun)

LiveNext == LiveNewJob \/ JobFinished \/ QuantumExpired

\* harness: an event that stays due is delivered
Delivering == WF_vars(JobFinished) /\ WF_vars(QuantumExpired)

LiveSpec == Init /\ [][LiveNext]_vars /\ Delivering

\* Round robin alone, with the harness that keeps delivering.
RRInit == start_up({"RR"})

RRSpec == RRInit /\ [][LiveNext]_vars /\ Delivering

\* longer PSJF traces: more and longer jobs, one discipline
PSJFInit == start_up({"PSJF"})

PSJFNewJob == Arrival(DeepJobs, DeepTime, 1 .. DeepRun)

PSJFNext == PSJFNewJob \/ JobFinished

PSJFSpec == PSJFInit /\ [][PSJFNext]_vars

\* ------------------------------------------------- scheduler_average_*
\* the float quotient sum / n, kept exact as numerator and denominator (the
\* sums are small whole numbers, which a float holds exactly)
Quotient(sum, n) == [num |-> sum, den |-> n]

\* the literal 0.0 returned when the sum is zero
Zero == [num |-> 0, den |-> 1]

\* scheduler_average_waiting_time without the test for a zero sum
scheduler_average_waiting_time_nocheck == Quotient(t_wait, n_jobs)

scheduler_average_waiting_time ==
  IF t_wait # 0 THEN Quotient(t_wait, n_jobs) ELSE Zero

scheduler_average_turnaround_time ==
  IF t_turnaround # 0 THEN Quotient(t_turnaround, n_jobs) ELSE Zero

scheduler_average_response_time ==
  IF t_response # 0 THEN Quotient(t_response, n_jobs) ELSE Zero

AverageOps ==
  {"averageWaitingTime", "averageTurnaroundTime", "averageResponseTime"}

\* the harness asks for one of the three averages
Average ==
  \E f \in AverageOps :
    /\ ev' = [op |-> f, core |-> -1, job |-> -1]
    /\ avg' = CASE f = "averageWaitingTime" -> scheduler_average_waiting_time
               [] f = "averageTurnaroundTime" -> scheduler_average_turnaround_time
               [] f = "averageResponseTime" -> scheduler_average_response_time
    /\ UNCHANGED <<t_scheme, n_cores, c_job, jobs, size, job, c_time, n_jobs,
                   t_response, t_wait, t_turnaround, ret, fin, quantum,
                   c_since, g_first>>

\* event traces in which the averages are queried, at any point; the
\* averages read no discipline, so one non-preemptive and one preemptive
\* discipline supply the sums
StatsInit == start_up({"FCFS", "PSJF"})

StatsNext == NewJob \/ JobFinished \/ Average

StatsSpec == StatsInit /\ [][StatsNext]_vars

\* ------------------------------------------------------ the queue alone
\* priqueue_init, and the items the caller will offer: job records whose
\* keys (priority, run length) do not decrease with the item number, one
\* of which may already have started under the disciplines that look at it;
\* FCFS and RR read no key
QueueKeys == IF t_scheme \in {"FCFS", "RR"} THEN {0} ELSE 0 .. MaxPri

QueueInit ==
  /\ t_scheme \in Schemes
  /\ \E key \in [1 .. QItems -> QueueKeys],
        started \in (IF t_scheme \in {"SJF", "PRI"} THEN 0 .. QItems ELSE {0}) :
       /\ \A k \in 1 .. (QItems - 1) : key[k] <= key[k + 1]
       /\ job = [k \in 1 .. QItems |->
                   [new_job_rec(k, 0, key[k] + 1, key[k])
                      EXCEPT !.t_started = IF k = started THEN 0 ELSE Unset]]
  /\ jobs = << >> /\ size = 0
  /\ n_cores = 1 /\ c_job = [c \in {0} |-> NULL] /\ c_since = [c \in {0} |-> 0]
  /\ c_time = 0 /\ n_jobs = 0 /\ quantum = 0
  /\ t_response = 0 /\ t_wait = 0 /\ t_turnaround = 0
  /\ ret = -1 /\ avg = [num |-> 0, den |-> 1]
  /\ ev = [op |-> "init"]
  /\ fin = << >> /\ g_first = << >>

\* what the queue operations leave alone
QueueFrame ==
  UNCHANGED <<t_scheme, n_cores, c_job, job, c_time, n_jobs, t_response,
              t_wait, t_turnaround, avg, fin, quantum, c_since, g_first>>

\* priqueue_offer(q, ptr) for an item or NULL
QueueOffer ==
  \E x \in (1 .. QItems) \cup {NULL} :
    /\ priqueue_size(jobs) < QLen
    /\ jobs' = priqueue_offer(jobs, x, job).q
    /\ size' = size + priqueue_offer(jobs, x, job).n
    /\ ret' = priqueue_offer(jobs, x, job).r
    /\ ev' = [op |-> "offer", item |-> x]
    /\ QueueFrame

\* priqueue_at(q, index) for an index in and around the queue
QueueAt ==
  \E index \in -1 .. (priqueue_size(jobs) + 1) :
    /\ ret' \in priqueue_at(jobs, index)
    /\ jobs' = jobs /\ size' = size
    /\ ev' = [op |-> "at", index |-> index]
    /\ QueueFrame

QueueRemoveAt ==
  \E index \in -1 .. (priqueue_size(jobs) + 1) :
    \E o \in priqueue_remove_at_call(jobs, index) :
      /\ jobs' = o.q
      /\ size' = size + o.n
      /\ ret' = o.r
      /\ ev' = [op |-> "removeAt", index |-> index]
      /\ QueueFrame

QueueRemove ==
  \E x \in (1 .. QItems) \cup {NULL} :
    /\ jobs' = priqueue_remove(jobs, x).q
    /\ size' = size + priqueue_remove(jobs, x).n
    /\ ret' = priqueue_remove(jobs, x).r
    /\ ev' = [op |-> "remove", item |-> x]
    /\ QueueFrame

QueuePeek ==
  /\ ret' = priqueue_peek(jobs)
  /\ jobs' = jobs /\ size' = size
  /\ ev' = [op |-> "peek"]
  /\ QueueFrame

QueuePoll ==
  /\ jobs' = priqueue_poll(jobs).q
  /\ size' = size + priqueue_poll(jobs).n
  /\ ret' = priqueue_poll(jobs).r
  /\ ev' = [op |-> "poll"]
  /\ QueueFrame

QueueDestroy ==
  /\ jobs' = priqueue_destroy(jobs).q
  /\ size' = size + priqueue_destroy(jobs).n
  /\ ret' = NULL
  /\ ev' = [op |-> "destroy"]
  /\ QueueFrame

QueueNext == QueueOffer \/ QueueAt

QueueSpec == QueueInit /\ [][QueueNext]_vars

\* The queue under its removing operations.  None of them calls the
\* comparator, so two disciplines stand for all: one whose comparator always
\* answers 1 and one that compares a key.
QueueEditInit == QueueInit /\ t_scheme \in {"FCFS", "PPRI"}

\* A call that did not return ends the program, and so does one that left
\* the size and the list out of step: what a later call does is undefined.
QueueLive == ret # Fault /\ size = priqueue_size(jobs)

QueueEditNext ==
  \/ QueueLive /\ QueueOffer
  \/ QueueLive /\ QueueRemoveAt
  \/ QueueLive /\ QueueRemove
  \/ QueueLive /\ QueuePeek
  \/ QueueLive /\ QueuePoll
  \/ QueueLive /\ QueueDestroy

QueueEditSpec == QueueEditInit /\ [][QueueEditNext]_vars

\* event traces that end with a completion reported for a job id that is
\* not in the queue (never submitted, or already finalized)
FinishAbsent ==
  \E core_id \in Cores, job_number \in 1 .. (MaxJobs + 1),
     time \in c_time .. (IF c_time < MaxTime THEN MaxTime ELSE c_time) :
    /\ \A i \in 1 .. Len(jobs) : job[jobs[i]].job_id # job_number
    /\ NothingBefore(time)
    /\ scheduler_job_finished_miss(core_id, job_number, time)

MissInit == start_up({"FCFS", "PSJF"})

\* no further event is delivered after the absent completion
NoMiss == ev.op # "jobFinished(absent)"

MissNext ==
  \/ NoMiss /\ NewJob
  \/ NoMiss /\ JobFinished
  \/ NoMiss /\ FinishAbsent

MissSpec == MissInit /\ [][MissNext]_vars

\* ======================================================================
\* Properties
\* ======================================================================
NonPreemptive == t_scheme \in {"FCFS", "SJF", "PRI"}

\* cores holding a job / all of them hold one
Busy(c) == c_job[c] # NULL
AllBusy == \A c \in Cores : Busy(c)

\* number of times x occurs in the sequence q
Occurs(q, x) == Cardinality({i \in 1 .. Len(q) : q[i] = x})

\* remaining time of the job on core c once the clock has advanced to T
RemAt(c, T) == job[c_job[c]].t_remaining - (T - job[c_job[c]].t_updated)

\* the step is a scheduler_new_job call
IsNewJob == ev'.op = "newJob" /\ n_jobs' = n_jobs + 1

\* C1: under FCFS, SJF and PRI a job that has a core keeps exactly that core
\* in every step until the jobFinished call for that very job frees it.
C1_CoreKeptUntilFinished ==
  [][NonPreemptive =>
       \A j \in DOMAIN job :
         job[j].j_core # Unset =>
           IF j \in DOMAIN job'
           THEN job'[j].j_core = job[j].j_core /\ c_job'[job[j].j_core] = j
           ELSE ev'.op = "jobFinished" /\ ev'.job = j]_vars

\* an arrival that beats a running job under SJF/PRI was queued without a core
C1_Witness ==
  /\ NonPreemptive /\ ev.op = "newJob" /\ ret = -1
  /\ \E c \in Cores :
       /\ Busy(c) /\ job[c_job[c]].j_core = c
       /\ \/ t_scheme = "SJF" /\ job[ev.job].t_total < job[c_job[c]].t_remaining
          \/ t_scheme = "PRI" /\ job[ev.job].priority < job[c_job[c]].priority

\* C2: under PSJF, after every event, no queued job without a core has
\* strictly less remaining time than some job that is on a core.
\* (Violated: two running jobs tie, both are evicted one after the other and
\* keep their queue positions, and the longer one is dispatched first.)
C2_PSJFNoShorterJobWaits ==
  t_scheme = "PSJF" =>
    \A i \in 1 .. Len(jobs), c \in Cores :
      (job[jobs[i]].j_core = Unset /\ Busy(c)) =>
        ~(job[jobs[i]].t_remaining < job[c_job[c]].t_remaining)


\* C3: newJob with an empty core slot returns the lowest empty index, puts
\* the job in that slot with start = update = event time and waiting 0,
\* queues it, and leaves every other slot as it was.
C3_IdleCoreLowestIndex ==
  [][(IsNewJob /\ ~AllBusy) =>
       LET lo == CHOOSE c \in Cores :
                   ~Busy(c) /\ \A d \in Cores : ~Busy(d) => c <= d
           n  == n_jobs'
       IN  /\ ret' = lo
           /\ c_job'[lo] = n
           /\ \A d \in Cores \ {lo} : c_job'[d] = c_job[d]
           /\ job'[n].t_started = c_time' /\ job'[n].t_updated = c_time'
           /\ job'[n].t_waiting = 0 /\ job'[n].j_core = lo
           /\ Len(jobs') = Len(jobs) + 1 /\ Occurs(jobs', n) = 1]_vars

\* core 0 was busy, so the arrival went to core 1 and not to a fixed slot
C3_Witness ==
  /\ ev.op = "newJob" /\ ret = 1 /\ c_job[1] = ev.job
  /\ Busy(0) /\ job[c_job[0]].t_started < c_time

\* C4: under PSJF with every core busy, newJob evicts iff some running job's
\* remaining time (after the clock advance) exceeds the arrival's run length;
\* the victim has the greatest remaining time, lowest core index on a tie,
\* and its core index is returned; otherwise -1 and no slot changes.
C4_PSJFVictim ==
  [][(IsNewJob /\ t_scheme = "PSJF" /\ AllBusy) =>
       LET T   == c_time'
           n   == n_jobs'
           run == job'[n].t_total
           top == CHOOSE c \in Cores :
                    \A d \in Cores :
                      \/ RemAt(c, T) > RemAt(d, T)
                      \/ RemAt(c, T) = RemAt(d, T) /\ c <= d
       IN  IF \E c \in Cores : RemAt(c, T) > run
           THEN /\ ret' = top /\ c_job'[top] = n
                /\ job'[c_job[top]].j_core = Unset
                /\ \A d \in Cores \ {top} : c_job'[d] = c_job[d]
           ELSE ret' = -1 /\ c_job' = c_job]_vars

\* both running jobs were longer than the arrival; the longer of the two sat
\* on core 1 and was the one evicted, while the job on core 0 kept running
C4_Witness ==
  /\ t_scheme = "PSJF" /\ ev.op = "newJob" /\ ret = 1 /\ n_cores = 2
  /\ c_job[1] = ev.job /\ job[c_job[0]].t_started < c_time
  /\ job[c_job[0]].t_remaining > job[ev.job].t_total
  /\ \E i \in 1 .. Len(jobs) :
       /\ job[jobs[i]].j_core = Unset /\ job[jobs[i]].t_updated = c_time
       /\ job[jobs[i]].t_remaining > job[c_job[0]].t_remaining

\* C5: under PPRI with every core busy, newJob evicts iff some running job
\* has a strictly greater priority number than the arrival; the victim has
\* the greatest priority number, the latest arrival among those sharing it,
\* and its core index is returned.
C5_PPRIVictim ==
  [][(IsNewJob /\ t_scheme = "PPRI" /\ AllBusy) =>
       LET n   == n_jobs'
           pri(c) == job[c_job[c]].priority
           arr(c) == job[c_job[c]].t_arrival
           top == CHOOSE c \in Cores :
                    \A d \in Cores \ {c} :
                      \/ pri(c) > pri(d)
                      \/ pri(c) = pri(d) /\ arr(c) > arr(d)
       IN  IF \E c \in Cores : pri(c) > job'[n].priority
           THEN /\ ret' = top /\ c_job'[top] = n
                /\ job'[c_job[top]].j_core = Unset
                /\ \A d \in Cores \ {top} : c_job'[d] = c_job[d]
           ELSE ret' = -1 /\ c_job' = c_job]_vars

\* both running jobs had the same priority number; the later arrival, which
\* sat on core 1, was evicted and the earlier one on core 0 kept running
C5_Witness ==
  /\ t_scheme = "PPRI" /\ ev.op = "newJob" /\ ret = 1 /\ n_cores = 2
  /\ \E i \in 1 .. Len(jobs) :
       /\ job[jobs[i]].j_core = Unset /\ job[jobs[i]].t_waiting # Uninit
       /\ job[jobs[i]].priority = job[c_job[0]].priority
       /\ job[jobs[i]].t_arrival > job[c_job[0]].t_arrival
       /\ job[jobs[i]].priority > job[ev.job].priority
\* the step is a scheduler_new_job call that pushed a running job off its core
IsEviction == IsNewJob /\ AllBusy /\ ret' # -1

\* C6: the job evicted by newJob stays queued with core unset and the
\* remaining time it had after the clock advance; its start timestamp is
\* reset to unset iff it was first dispatched at this very event time (it
\* never ran), otherwise kept.  So in any step a set start timestamp is only
\* ever changed by that undo.
C6_EvictionKeepsJob ==
  [][/\ IsEviction =>
          LET e == c_job[ret']
              T == c_time'
          IN  /\ e \in DOMAIN job' /\ Occurs(jobs', e) = 1
              /\ job'[e].j_core = Unset
              /\ job'[e].t_remaining = job[e].t_remaining - (T - job[e].t_updated)
              /\ job'[e].t_started = g_first'[e]
              /\ (job'[e].t_started = Unset) <=> (job[e].t_started = T)
     /\ \A j \in DOMAIN job \cap DOMAIN job' :
          (job[j].t_started # Unset /\ job'[j].t_started # job[j].t_started) =>
             /\ IsEviction /\ c_job[ret'] = j
             /\ job[j].t_started = c_time' /\ job'[j].t_started = Unset]_vars

\* a job handed a freed core and evicted by an arrival in the same timestep:
\* it waits again with its start timestamp undone
C6_Witness ==
  /\ ev.op = "newJob" /\ ret # -1
  /\ \E i \in 1 .. Len(jobs) :
       /\ job[jobs[i]].j_core = Unset /\ job[jobs[i]].t_started = Unset
       /\ job[jobs[i]].t_waiting = c_time - job[jobs[i]].t_arrival
       /\ job[jobs[i]].t_waiting > 0

\* C7: jobFinished for a queued job hands coreId to the first job in queue
\* order that has no core and returns its id; when no queued job is without
\* a core (or the queue is empty) it returns -1 and slot coreId stays empty.
C7_FinishedDispatchesFirstWaiting ==
  [][ev'.op = "jobFinished" =>
       LET core == ev'.core
           rest == SelectSeq(jobs, LAMBDA k : k # ev'.job)
           wait == {i \in 1 .. Len(rest) : job[rest[i]].j_core = Unset}
       IN  /\ jobs' = rest
           /\ IF wait = {}
              THEN ret' = -1 /\ c_job'[core] = NULL
              ELSE LET n == rest[CHOOSE i \in wait : \A k \in wait : i <= k]
                   IN  /\ ret' = n /\ c_job'[core] = n
                       /\ job'[n].j_core = core
           /\ \A d \in Cores \ {core} : c_job'[d] = c_job[d]]_vars

\* the job dispatched was not the queue head: a running job is queued ahead
C7_Witness ==
  /\ ev.op = "jobFinished" /\ ret # -1 /\ Len(jobs) >= 2
  /\ jobs[1] # ret /\ job[jobs[1]].j_core # Unset
  /\ job[ret].j_core = ev.core

\* C8: a job dispatched by jobFinished or quantumExpired at time T gets, if
\* it never started, start = T and waiting = T - arrival; if it had started,
\* its start is kept and its waiting time grows by T minus its last update
\* (for a job re-queued by this very call the last update is T itself).
C8_DispatchWaiting ==
  [][(ev'.op \in {"jobFinished", "quantumExpired"} /\ ret' # -1) =>
       LET n == ret'
           T == c_time'
           last == IF job[n].j_core # Unset THEN T ELSE job[n].t_updated
       IN  IF job[n].t_started = Unset
           THEN /\ job'[n].t_started = T
                /\ job'[n].t_waiting = T - job[n].t_arrival
           ELSE /\ job'[n].t_started = job[n].t_started
                /\ job'[n].t_waiting = job[n].t_waiting + (T - last)]_vars

\* a job that ran, was pushed off its core and waited, is dispatched again
C8_Witness ==
  /\ ev.op \in {"jobFinished", "quantumExpired"} /\ ret # -1
  /\ job[ret].t_started < c_time
  /\ job[ret].t_waiting > job[ret].t_started - job[ret].t_arrival
  /\ job[ret].t_remaining < job[ret].t_total

\* sum of f[j] over the job numbers in S
RECURSIVE SumOver(_, _)
SumOver(f, S) ==
  IF S = {} THEN 0
  ELSE LET x == CHOOSE y \in S : TRUE IN f[x] + SumOver(f, S \ {x})

\* C9: every finalized job has turnaround (end - arrival) = accumulated
\* waiting time + total run length, and what it added to the response sum is
\* the time it first actually ran minus its arrival.
C9_TurnaroundIdentity ==
  /\ \A j \in DOMAIN fin :
       /\ fin[j].t_end - fin[j].t_arrival = fin[j].t_waiting + fin[j].t_total
       /\ fin[j].t_started = g_first[j]
  /\ t_turnaround =
       SumOver([j \in DOMAIN fin |-> fin[j].t_end - fin[j].t_arrival], DOMAIN fin)
  /\ t_wait = SumOver([j \in DOMAIN fin |-> fin[j].t_waiting], DOMAIN fin)
  /\ t_response =
       SumOver([j \in DOMAIN fin |-> g_first[j] - fin[j].t_arrival], DOMAIN fin)

\* a finalized job that was off its core for a while after it had started
C9_Witness ==
  \E j \in DOMAIN fin :
    /\ fin[j].t_waiting > fin[j].t_started - fin[j].t_arrival
    /\ fin[j].t_started > fin[j].t_arrival

\* C10: newJob with no empty slot and no eviction (FCFS, SJF, PRI, RR, or
\* PSJF/PPRI with no running job that qualifies) returns -1, queues the job
\* with core and start unset, and changes no slot and no job's core.
C10_NoChangeArrival ==
  [][(/\ IsNewJob /\ AllBusy
      /\ \/ t_scheme \in {"FCFS", "SJF", "PRI", "RR"}
         \/ /\ t_scheme = "PSJF"
            /\ \A c \in Cores : RemAt(c, c_time') <= job'[n_jobs'].t_total
         \/ /\ t_scheme = "PPRI"
            /\ \A c \in Cores : job[c_job[c]].priority <= job'[n_jobs'].priority)
     => LET n == n_jobs'
        IN  /\ ret' = -1
            /\ Len(jobs') = Len(jobs) + 1 /\ Occurs(jobs', n) = 1
            /\ job'[n].j_core = Unset /\ job'[n].t_started = Unset
            /\ c_job' = c_job
            /\ \A j \in DOMAIN job : job'[j].j_core = job[j].j_core]_vars

\* PPRI: the arrival ties with the worst running job and is queued
C10_Witness ==
  /\ t_scheme = "PPRI" /\ ev.op = "newJob" /\ ret = -1 /\ AllBusy
  /\ job[ev.job].j_core = Unset /\ job[ev.job].t_started = Unset
  /\ \E c \in Cores : job[c_job[c]].priority = job[ev.job].priority
  /\ \A c \in Cores : job[c_job[c]].priority <= job[ev.job].priority

\* C11: under RR, quantumExpired on a core whose job still has work left puts
\* that job at the tail of the queue (every other element keeps its place)
\* with update time = event time, hands the core to the first queued job
\* without a core and returns its id; the expired job itself gets the core
\* back only when no other queued job is without a core.
C11_QuantumExpiredRequeues ==
  [][(ev'.op = "quantumExpired" /\ RemAt(ev'.core, c_time') # 0) =>
       LET core == ev'.core
           x    == c_job[core]
           rest == SelectSeq(jobs, LAMBDA k : k # x)
           wait == {i \in 1 .. Len(rest) : job[rest[i]].j_core = Unset}
       IN  /\ jobs' = Append(rest, x)
           /\ job'[x].t_updated = c_time'
           /\ IF wait = {}
              THEN ret' = x /\ c_job'[core] = x /\ job'[x].j_core = core
              ELSE LET n == rest[CHOOSE i \in wait : \A k \in wait : i <= k]
                   IN  /\ ret' = n /\ c_job'[core] = n
                       /\ job'[n].j_core = core /\ job'[x].j_core = Unset
           /\ \A d \in Cores \ {core} : c_job'[d] = c_job[d]]_vars

\* the expired job went to the tail and its core to the first waiting job,
\* which sat behind a job running on the other core
C11_Witness ==
  /\ ev.op = "quantumExpired" /\ ev.job \in DOMAIN job /\ ret # ev.job
  /\ Len(jobs) = 3 /\ jobs[3] = ev.job
  /\ job[ev.job].j_core = Unset /\ job[ev.job].t_updated = c_time
  /\ job[ev.job].t_remaining > 0
  /\ jobs[2] = ret /\ job[jobs[1]].j_core \notin {Unset, ev.core}

\* C12: under RR, quantumExpired on a core whose job has no work left after
\* the clock advance finalizes it as jobFinished does (out of the queue and
\* the heap, end - arrival, waiting and start - arrival added to the sums),
\* then hands the core to the first queued job without a core and returns
\* its id, or returns -1 and leaves the slot empty when there is none.
C12_QuantumExpiredFinalizes ==
  [][(ev'.op = "quantumExpired" /\ RemAt(ev'.core, c_time') = 0) =>
       LET core == ev'.core
           x    == c_job[core]
           rest == SelectSeq(jobs, LAMBDA k : k # x)
           wait == {i \in 1 .. Len(rest) : job[rest[i]].j_core = Unset}
       IN  /\ x \notin DOMAIN job' /\ jobs' = rest
           /\ t_turnaround' = t_turnaround + (c_time' - job[x].t_arrival)
           /\ t_wait' = t_wait + job[x].t_waiting
           /\ t_response' = t_response + (job[x].t_started - job[x].t_arrival)
           /\ IF wait = {}
              THEN ret' = -1 /\ c_job'[core] = NULL
              ELSE LET n == rest[CHOOSE i \in wait : \A k \in wait : i <= k]
                   IN  ret' = n /\ c_job'[core] = n /\ job'[n].j_core = core
           /\ \A d \in Cores \ {core} : c_job'[d] = c_job[d]]_vars

\* a job that had been re-queued before ran out of work exactly at the end of
\* a time slice, was finalized by quantumExpired, and a waiting job took over
C12_Witness ==
  /\ ev.op = "quantumExpired" /\ ev.job \in DOMAIN fin
  /\ fin[ev.job].t_end = c_time /\ fin[ev.job].t_remaining = 0
  /\ fin[ev.job].t_waiting > fin[ev.job].t_started - fin[ev.job].t_arrival
  /\ ret # -1 /\ c_job[ev.core] = ret

\* jobs that have arrived and are not finalized
LiveJobs == (1 .. n_jobs) \ DOMAIN fin

\* C13: the queue holds exactly the live jobs, each once, running or waiting;
\* newJob lengthens it by one in each of its outcomes, jobFinished shortens
\* it by one, and quantumExpired on a job with work left keeps its length.
C13_QueueHoldsLiveJobs ==
  /\ [](/\ DOMAIN job = LiveJobs
        /\ {jobs[i] : i \in 1 .. Len(jobs)} = LiveJobs
        /\ Len(jobs) = Cardinality(LiveJobs))
  /\ [][/\ IsNewJob => Len(jobs') = Len(jobs) + 1
        /\ ev'.op = "jobFinished" => Len(jobs') = Len(jobs) - 1
        /\ (ev'.op = "quantumExpired" /\ RemAt(ev'.core, c_time') # 0) =>
              Len(jobs') = Len(jobs)]_vars

\* an arrival that evicted a running job went to the head of the queue, and
\* the evicted job and the job on the other core are still queued behind it
C13_Witness ==
  /\ ev.op = "newJob" /\ ret # -1 /\ Len(jobs) = 3 /\ jobs[1] = ev.job
  /\ \E i \in 2 .. 3 : job[jobs[i]].j_core = Unset /\ job[jobs[i]].t_started # Unset
  /\ \E i \in 2 .. 3 : job[jobs[i]].j_core \notin {Unset, ret}

\* C14: after every event core slots and jobs agree: no job is in two slots,
\* every non-empty slot i holds a queued job whose j_core is i, and every
\* queued job whose j_core is i (not unset) is the job in slot i.
C14_SlotsAndJobsAgree ==
  /\ \A c, d \in Cores : (Busy(c) /\ c_job[c] = c_job[d]) => c = d
  /\ \A c \in Cores :
       Busy(c) => Occurs(jobs, c_job[c]) = 1 /\ job[c_job[c]].j_core = c
  /\ \A i \in 1 .. Len(jobs) :
       job[jobs[i]].j_core # Unset =>
         job[jobs[i]].j_core \in Cores /\ c_job[job[jobs[i]].j_core] = jobs[i]

\* both cores busy, one of them with a job put there by an eviction, and the
\* evicted job queued without a core
C14_Witness ==
  /\ n_cores = 2 /\ AllBusy /\ ev.op = "newJob" /\ ret # -1
  /\ c_job[ret] = ev.job /\ c_job[1 - ret] # ev.job
  /\ \E i \in 1 .. Len(jobs) :
       /\ job[jobs[i]].j_core = Unset /\ job[jobs[i]].t_remaining < job[jobs[i]].t_total

C16_Averages ==
  [][ev'.op \in AverageOps =>
       LET term(j) ==
             CASE ev'.op = "averageWaitingTime" -> fin[j].t_waiting
               [] ev'.op = "averageTurnaroundTime" -> fin[j].t_end - fin[j].t_arrival
               [] ev'.op = "averageResponseTime" -> fin[j].t_started - fin[j].t_arrival
           sum == SumOver([j \in DOMAIN fin |-> term(j)], DOMAIN fin)
           submitted == Cardinality(DOMAIN fin \cup DOMAIN job)
       IN  /\ avg' = IF sum = 0 THEN Zero ELSE [num |-> sum, den |-> submitted]
           /\ avg'.den # 0
           /\ UNCHANGED <<t_scheme, n_cores, c_job, jobs, job, c_time, n_jobs,
                          t_response, t_wait, t_turnaround, fin>>
           /\ ev.op = ev'.op => avg' = avg]_vars

\* the average waiting time asked for while a job is still live: the sum is
\* over the finalized jobs, the divisor counts the live job too
C16_Witness ==
  /\ ev.op = "averageWaitingTime" /\ avg.num > 0
  /\ avg.den = n_jobs /\ avg.den > Cardinality(DOMAIN fin)

\* C17: jobFinished with a job id that is not in the queue is a soft miss:
\* it returns -1 without a fault, removes, finalizes and frees no job,
\* leaves the three sums and the queue contents as they were.
\* (Violated: the call finalizes and frees the last job of the queue, or
\* goes through an uninitialised pointer when the queue is empty.)
C17_AbsentJobIsSoftMiss ==
  [][ev'.op = "jobFinished(absent)" =>
       /\ ret' = -1
       /\ jobs' = jobs
       /\ DOMAIN job' = DOMAIN job /\ fin' = fin
       /\ UNCHANGED <<t_turnaround, t_wait, t_response>>]_vars

\* C18: priqueue_offer of a non-null item puts it immediately before the
\* first element e, from the front, with comparer(item, e) < 0, or at the
\* end when there is none, and keeps the order of the elements already
\* there; so the item lands behind every element it ties with, and with a
\* comparer that is never negative (FCFS, RR) the queue is in offer order.
C18_OfferPlacement ==
  [][(ev'.op = "offer" /\ ev'.item # NULL) =>
       LET x == ev'.item
           before == {i \in 1 .. Len(jobs) : comparer(job[x], job[jobs[i]]) < 0}
           p == IF before = {} THEN Len(jobs) + 1
                ELSE CHOOSE i \in before : \A k \in before : i <= k
       IN  /\ jobs' = SubSeq(jobs, 1, p - 1) \o <<x>> \o SubSeq(jobs, p, Len(jobs))
           /\ (\A i \in 1 .. Len(jobs) : comparer(job[x], job[jobs[i]]) >= 0)
                 => jobs' = Append(jobs, x)]_vars

\* an item landed in the middle: behind a different item it ties with and
\* ahead of one it compares before
C18_Witness ==
  /\ ev.op = "offer" /\ Len(jobs) = 3 /\ jobs[2] = ev.item
  /\ jobs[1] # ev.item /\ jobs[3] # ev.item /\ jobs[1] # jobs[3]
  /\ t_scheme = "PPRI"
  /\ job[jobs[1]].priority = job[ev.item].priority
  /\ job[jobs[3]].priority > job[ev.item].priority

\* C19: priqueue_offer of a non-null item returns the zero-based position
\* at which the item is stored after the call, wherever it lands.
\* (Violated: past the head the scan returns the index of the node the item
\* is linked behind, one less than the item's own position.)
C19_OfferReturnsPosition ==
  [][(ev'.op = "offer" /\ ev'.item # NULL) =>
       /\ 0 <= ret' /\ ret' < Len(jobs')
       /\ jobs'[ret' + 1] = ev'.item]_vars

\* C20: priqueue_at returns the element at the index when 0 <= index < size
\* and NULL, without a fault, for every other index (negative, above size,
\* equal to size, 0 on the empty queue); the queue is unchanged.
\* (Violated: index == size passes the range test and a NULL node is read.)
C20_AtRange ==
  [][ev'.op = "at" =>
       /\ jobs' = jobs
       /\ ret' = IF 0 <= ev'.index /\ ev'.index < Len(jobs)
                 THEN jobs[ev'.index + 1] ELSE NULL]_vars

\* C21: priqueue_remove_at with 0 <= index < size removes and returns the
\* element at that position, lowers the size by one and keeps the order of
\* the others; with any other index (negative, above size, equal to size,
\* 0 on the empty queue) it returns NULL and leaves queue and size alone.
\* (Violated: index == size passes the range test and a NULL node is read.)
C21_RemoveAtRange ==
  [][ev'.op = "removeAt" =>
       IF 0 <= ev'.index /\ ev'.index < Len(jobs)
       THEN /\ ret' = jobs[ev'.index + 1]
            /\ jobs' = SubSeq(jobs, 1, ev'.index)
                         \o SubSeq(jobs, ev'.index + 2, Len(jobs))
            /\ size' = size - 1
       ELSE /\ ret' = NULL
            /\ jobs' = jobs
            /\ size' = size]_vars

\* C22: priqueue_remove takes out every element identical to the item,
\* wherever it sits (at the head, at the tail, several in a row), returns how
\* many it took out, lowers the size by that number and keeps the order of
\* the rest; the outcome depends on the items alone, not on the comparator.
C22_RemoveAllEqual ==
  [][ev'.op = "remove" =>
       /\ jobs' = SelectSeq(jobs, LAMBDA e : e # ev'.item)
       /\ ret' = Len(jobs) - Len(jobs')
       /\ size' = size - ret']_vars

C22_Witness ==
  /\ ev.op = "remove" /\ ret = 2
  /\ Len(jobs) = 1 /\ jobs[1] # ev.item /\ size = 1

\* C23: priqueue_peek returns the element at position 0 and changes nothing;
\* priqueue_poll returns that same element, removes it and lowers the size by
\* one, so that the element that was at position 1 is the new front; on an
\* empty queue both return NULL and leave the queue as it is.
C23_PeekAndPoll ==
  [][/\ ev'.op = "peek" =>
          /\ ret' = IF Len(jobs) = 0 THEN NULL ELSE jobs[1]
          /\ jobs' = jobs /\ size' = size
     /\ ev'.op = "poll" =>
          IF Len(jobs) = 0
          THEN ret' = NULL /\ jobs' = jobs /\ size' = size
          ELSE /\ ret' = jobs[1]
               /\ ret' = priqueue_peek(jobs)
               /\ size' = size - 1
               /\ Len(jobs') = Len(jobs) - 1
               /\ \A i \in 1 .. Len(jobs') : jobs'[i] = jobs[i + 1]]_vars

C23_Witness ==
  /\ ev.op = "poll" /\ ret # NULL
  /\ Len(jobs) = 2 /\ size = 2 /\ jobs[1] # ret

\* C24: priqueue_offer of a NULL item returns -1 and changes neither the
\* queue nor its size, whatever the queue holds and whatever the comparator.
C24_OfferNull ==
  [][(ev'.op = "offer" /\ ev'.item = NULL) =>
       /\ ret' = -1
       /\ jobs' = jobs
       /\ size' = size]_vars

C24_Witness ==
  /\ ev.op = "offer" /\ ev.item = NULL /\ ret = -1
  /\ Len(jobs) = 2 /\ size = 2

\* C25: after every priqueue_offer, priqueue_poll, priqueue_remove_at with
\* an index inside the queue, priqueue_remove and priqueue_destroy, the size
\* the queue reports is the number of nodes reachable from its head; an
\* offer of a non-null item never returns -1 and raises the size by exactly
\* one; after priqueue_destroy the size is 0 and the list is empty.
C25_SizeCountsNodes ==
  [][(\/ ev'.op \in {"offer", "poll", "remove", "destroy"}
      \/ ev'.op = "removeAt" /\ 0 <= ev'.index /\ ev'.index < Len(jobs)) =>
       /\ size' = Len(jobs')
       /\ (ev'.op = "offer" /\ ev'.item # NULL) =>
            ret' # -1 /\ size' = size + 1
       /\ ev'.op = "destroy" => size' = 0 /\ jobs' = << >>]_vars

C25_Witness ==
  /\ ev.op = "offer" /\ ev.item # NULL /\ ret > 0
  /\ size = QLen /\ Len(jobs) = QLen

\* the jobs that are queued without a core
Waiting == {j \in DOMAIN job : job[j].j_core = Unset}

\* the step is a scheduler_job_finished call that dispatched a job
IsDispatch == ev'.op = "jobFinished" /\ ret' # -1

\* one-based position of x in the sequence q
PosIn(q, x) == CHOOSE i \in 1 .. Len(q) : q[i] = x

\* C26: under FCFS the queue is in every state in order of arrival, and the
\* job a jobFinished call dispatches was waiting and has the earliest
\* arrival of all jobs that were queued without a core.
C26_FCFSArrivalOrder ==
  /\ [](t_scheme = "FCFS" =>
          \A i, k \in 1 .. Len(jobs) :
            i < k => job[jobs[i]].t_arrival < job[jobs[k]].t_arrival)
  /\ [][(t_scheme = "FCFS" /\ IsDispatch) =>
          /\ ret' \in Waiting
          /\ \A w \in Waiting : job[ret'].t_arrival <= job[w].t_arrival]_vars

\* a job was dispatched while a later arrival stays queued without a core
C26_Witness ==
  /\ t_scheme = "FCFS" /\ ev.op = "jobFinished" /\ ret # -1
  /\ job[ret].j_core = ev.core
  /\ \E w \in Waiting : job[w].t_arrival > job[ret].t_arrival

\* C27: under SJF the job a jobFinished call dispatches has the smallest
\* total run length of the jobs queued without a core, the earliest arrival
\* among those of that length; and newJob never places the arrival ahead of
\* a queued job that has already started.
C27_SJFShortestFirst ==
  [][/\ (t_scheme = "SJF" /\ IsDispatch) =>
          /\ ret' \in Waiting
          /\ \A w \in Waiting :
               \/ job[ret'].t_total < job[w].t_total
               \/ /\ job[ret'].t_total = job[w].t_total
                  /\ job[ret'].t_arrival <= job[w].t_arrival
     /\ (t_scheme = "SJF" /\ IsNewJob) =>
          \A s \in DOMAIN job :
            job[s].t_started # Unset =>
              PosIn(jobs', s) < PosIn(jobs', ev'.job)]_vars

\* the shorter of two waiting jobs was dispatched although it arrived later
C27_Witness ==
  /\ t_scheme = "SJF" /\ ev.op = "jobFinished" /\ ret # -1
  /\ job[ret].j_core = ev.core
  /\ \E w \in Waiting :
       /\ job[w].t_arrival < job[ret].t_arrival
       /\ job[w].t_total > job[ret].t_total

\* C28: under PRI and PPRI the job a jobFinished call dispatches has the
\* lowest priority number of the jobs queued without a core, the earliest
\* arrival among those of that priority; under PPRI the queue is in every
\* state in order of non-decreasing priority number, evicted jobs included.
C28_PriorityOrder ==
  /\ [](t_scheme = "PPRI" =>
          \A i, k \in 1 .. Len(jobs) :
            i < k => job[jobs[i]].priority <= job[jobs[k]].priority)
  /\ [][(t_scheme \in {"PRI", "PPRI"} /\ IsDispatch) =>
          /\ ret' \in Waiting
          /\ \A w \in Waiting :
               \/ job[ret'].priority < job[w].priority
               \/ /\ job[ret'].priority = job[w].priority
                  /\ job[ret'].t_arrival <= job[w].t_arrival]_vars

\* under PPRI a job was dispatched while an evicted job of higher priority
\* number, which arrived before it, stays queued without a core
C28_Witness ==
  /\ t_scheme = "PPRI" /\ ev.op = "jobFinished" /\ ret # -1
  /\ job[ret].j_core = ev.core
  /\ \E w \in Waiting :
       /\ job[w].t_arrival < job[ret].t_arrival
       /\ job[w].priority > job[ret].priority
       /\ job[w].t_remaining < job[w].t_total

\* C29: under PSJF the job a jobFinished call dispatches has the least
\* remaining time of the jobs queued without a core, whatever arrivals and
\* evictions came before.
\* (Violated: an evicted job keeps the queue position it got at insertion;
\* after a tie between two running jobs both are evicted in turn and the one
\* with more work left is queued ahead of the other.)
C29_PSJFLeastRemaining ==
  [][(t_scheme = "PSJF" /\ IsDispatch) =>
       /\ ret' \in Waiting
       /\ \A w \in Waiting : job[ret'].t_remaining <= job[w].t_remaining]_vars

\* C30: the scheduler is work-conserving under every discipline: after every
\* event no core slot is empty while a queued job has no core.
C30_WorkConserving ==
  (\E c \in Cores : ~Busy(c)) => Waiting = {}

\* a completion freed a core that found no job to take: the only queued job
\* runs on the other core; and before it, jobs did wait with every core busy
C30_Witness ==
  /\ ev.op = "jobFinished" /\ ret = -1
  /\ ~Busy(ev.core) /\ Len(jobs) >= 1 /\ Waiting = {}
  /\ \E f \in DOMAIN fin : fin[f].t_waiting > 0

\* C31: under PPRI, after every event, no queued job without a core has a
\* priority number strictly lower than that of some job that is on a core.
C31_PPRINoMoreImportantJobWaits ==
  t_scheme = "PPRI" =>
    \A w \in Waiting, c \in Cores :
      Busy(c) => job[w].priority >= job[c_job[c]].priority

\* two busy cores, and a job that has run and was evicted waits behind a
\* running job of strictly lower priority number
C31_Witness ==
  /\ t_scheme = "PPRI" /\ n_cores = 2 /\ AllBusy
  /\ \E w \in Waiting, c \in Cores :
       /\ job[w].t_remaining < job[w].t_total
       /\ job[c_job[c]].priority < job[w].priority

\* C32: under every discipline, when the harness keeps delivering the
\* completions and the ends of time slices that are due, every submitted job
\* is eventually finalized (from some point on the finalized jobs are all
\* the jobs submitted); and in a state where every submitted job has been
\* finalized the queue is empty and every core slot is empty.
C32_EveryJobFinalized ==
  /\ <>[](DOMAIN fin = 1 .. n_jobs)
  /\ []((n_jobs > 0 /\ DOMAIN fin = 1 .. n_jobs) =>
          /\ jobs = << >> /\ size = 0
          /\ DOMAIN job = {}
          /\ \A c \in Cores : c_job[c] = NULL)

\* all FairJobs jobs were submitted and finalized, one of them after waiting
C32_Witness ==
  /\ n_jobs = FairJobs /\ DOMAIN fin = 1 .. n_jobs
  /\ jobs = << >> /\ \A c \in Cores : c_job[c] = NULL
  /\ \E f \in DOMAIN fin : fin[f].t_waiting > 0

\* C33: under RR, when the harness keeps delivering the ends of time slices
\* and the completions, every queued job without a core is eventually
\* dispatched; every arrival and every re-queued job enters the queue at the
\* tail, the others keeping their order, and a dispatch takes the job without
\* a core that stands first in the queue, so that the job just re-queued is
\* dispatched again only when no other job was waiting.
C33_RRNoStarvation ==
  /\ \A j \in 1 .. FairJobs :
       (j \in Waiting) ~> (j \in DOMAIN job /\ job[j].j_core # Unset)
  /\ [][t_scheme = "RR" =>
          /\ IsNewJob => jobs' = Append(jobs, ev'.job)
          /\ ev'.op = "quantumExpired" =>
               LET x == c_job[ev'.core]
                   rest == SelectSeq(jobs, LAMBDA k : k # x)
               IN  jobs' = IF x \in DOMAIN job' THEN Append(rest, x) ELSE rest
          /\ (ev'.op \in {"jobFinished", "quantumExpired"} /\ ret' # -1) =>
               IF ret' \in Waiting
               THEN \A w \in Waiting : PosIn(jobs, ret') <= PosIn(jobs, w)
               ELSE ret' = c_job[ev'.core] /\ Waiting = {}]_vars

\* the end of a time slice sent the running job to the tail, where it now
\* waits with work done, and dispatched the job that was waiting before it
C33_Witness ==
  /\ t_scheme = "RR" /\ ev.op = "quantumExpired" /\ ret # -1
  /\ Len(jobs) >= 2 /\ jobs[Len(jobs)] # ret
  /\ job[jobs[Len(jobs)]].j_core = Unset
  /\ job[jobs[Len(jobs)]].t_remaining < job[jobs[Len(jobs)]].t_total
  /\ job[ret].j_core = ev.core /\ job[ret].t_waiting > 0
====
